---- MODULE Spec2Model ----
(***************************************************************************)
(* Model of the pomodoro timer engine (src/src/Timer.ts), the part of the  *)
(* session logger it drives (Logger, src/unnamed/part_002) and the active  *)
(* task pointer the timer reads.                                           *)
(*                                                                         *)
(* Times are milliseconds, configured lengths are minutes.  The plugin     *)
(* settings live outside the modelled code, so every read of getSettings() *)
(* is an input drawn from a small set.                                     *)
(***************************************************************************)
EXTENDS Integers, Naturals, Sequences, FiniteSets, TLC

VARIABLES
    state,        \* Timer.state : TimerState
    now,          \* wall clock, new Date().getTime()
    task,         \* plugin.tracker.task (NoTask when there is none)
    pinned,       \* plugin.tracker.pinned
    pending,      \* processLog / logger.log calls in flight
    tracked,      \* are the log calls in flight followed (fixed by Init)
    lastOp,       \* history: what the last handler did
    sessTimeups,  \* history: timeups since the last start from Idle (2 = two or more)
    doc,          \* the lines of the document the logger and the corrector write
    list,         \* Tasks.state.list : TaskItem[]
    trackerTask,  \* the fields of plugin.tracker.task (empty when there is none)
    vault,        \* the task lines of each markdown file of the vault
    load          \* Tasks.loadAllVaultTasks in flight: files read so far

\* the documents, the task registry and the vault
vaultVars == <<doc, list, trackerTask, vault, load>>

vars == <<state, now, task, pinned, pending, tracked, lastOp, sessTimeups,
          doc, list, trackerTask, vault, load>>

----------------------------------------------------------------------------
(* Bounds *)

MaxWorkLen == 2
MaxBreakLen == 2
MaxNow == 1
MaxTask == 1

(* Program constants *)

Null == -1
NoTask == 0

WorkLens == 1..MaxWorkLen
BreakLens == 0..MaxBreakLen
TaskIds == 1..MaxTask
TickDeltas == {30000, 60000}
Modes == {"WORK", "BREAK"}

LogLevels == {"ALL", "WORK", "BREAK"}
LogFiles == {"NONE", "FILE"}
LogFormats == {"SIMPLE", "VERBOSE"}

\* what the logger reads when it runs: its part of Settings, and whether
\* ctx.task.path is set, ends with md and names a file of the vault
LogSettings ==
    [logLevel : LogLevels, logFocused : BOOLEAN, logFile : LogFiles,
     logFormat : LogFormats, taskFile : BOOLEAN]

----------------------------------------------------------------------------
(* Timer.ts: pure helpers *)

toMillis(minutes) == minutes * 60 * 1000

Min(a, b) == IF a <= b THEN a ELSE b

\* Timer.constructor
InitState(w, b, a) ==
    [autostart |-> a, workLen |-> w, breakLen |-> b, running |-> FALSE,
     mode |-> "WORK", elapsed |-> 0, startTime |-> Null, inSession |-> FALSE,
     duration |-> w, count |-> toMillis(w)]

\* derived store: finished
finished(s) == s.count = s.elapsed

\* derived store: remained.millis
remain(s) == s.count - s.elapsed

ModeLen(s) == IF s.mode = "WORK" THEN s.workLen ELSE s.breakLen

start_restamp(s, t) ==
    [s EXCEPT !.elapsed = 0,
              !.duration = ModeLen(s),
              !.count = ModeLen(s) * 60 * 1000,
              !.startTime = t,
              !.inSession = TRUE,
              !.running = TRUE]

\* the update callback of Timer.start
start(s, t) ==
    LET s1 == IF ~s.inSession
              THEN [s EXCEPT !.elapsed = 0,
                             !.duration = ModeLen(s),
                             !.count = ModeLen(s) * 60 * 1000,
                             !.startTime = t]
              ELSE s
    IN [s1 EXCEPT !.inSession = TRUE, !.running = TRUE]

endSession_keepRunning(s) ==
    LET m  == IF s.breakLen = 0 THEN "WORK"
              ELSE IF s.mode = "WORK" THEN "BREAK" ELSE "WORK"
        s1 == [s EXCEPT !.mode = m]
    IN [s1 EXCEPT !.duration = ModeLen(s1),
                  !.count = ModeLen(s1) * 60 * 1000,
                  !.inSession = FALSE,
                  !.startTime = Null,
                  !.elapsed = 0]

endSession_workCount(s) ==
    LET m  == IF s.breakLen = 0 THEN "WORK"
              ELSE IF s.mode = "WORK" THEN "BREAK" ELSE "WORK"
        s1 == [s EXCEPT !.mode = m]
    IN [s1 EXCEPT !.duration = s1.workLen,
                  !.count = s1.workLen * 60 * 1000,
                  !.inSession = FALSE,
                  !.running = FALSE,
                  !.startTime = Null,
                  !.elapsed = 0]

endSession_noflip(s) ==
    [s EXCEPT !.duration = ModeLen(s),
              !.count = ModeLen(s) * 60 * 1000,
              !.inSession = FALSE,
              !.running = FALSE,
              !.startTime = Null,
              !.elapsed = 0]

\* Timer.endSession
endSession(s) ==
    LET m  == IF s.breakLen = 0 THEN "WORK"
              ELSE IF s.mode = "WORK" THEN "BREAK" ELSE "WORK"
        s1 == [s EXCEPT !.mode = m]
    IN [s1 EXCEPT !.duration = ModeLen(s1),
                  !.count = ModeLen(s1) * 60 * 1000,
                  !.inSession = FALSE,
                  !.running = FALSE,
                  !.startTime = Null,
                  !.elapsed = 0]

\* the update callback of Timer.pause
pause(s) == [s EXCEPT !.running = FALSE]

reset_keepStartTime(s) ==
    [s EXCEPT !.duration = ModeLen(s),
              !.count = ModeLen(s) * 60 * 1000,
              !.inSession = FALSE,
              !.running = FALSE,
              !.elapsed = 0]

\* the state part of the update callback of Timer.reset
reset(s) ==
    [s EXCEPT !.duration = ModeLen(s),
              !.count = ModeLen(s) * 60 * 1000,
              !.inSession = FALSE,
              !.running = FALSE,
              !.startTime = Null,
              !.elapsed = 0]

setupTimer_always(s, w, b, a) ==
    LET s1 == [s EXCEPT !.workLen = w, !.breakLen = b, !.autostart = a]
    IN [s1 EXCEPT !.duration = ModeLen(s1),
                  !.count = ModeLen(s1) * 60 * 1000]

setupTimer_keepCount(s, w, b, a) ==
    [s EXCEPT !.workLen = w, !.breakLen = b, !.autostart = a]

\* the update callback of Timer.setupTimer, reading settings (w, b, a)
setupTimer(s, w, b, a) ==
    LET s1 == [s EXCEPT !.workLen = w, !.breakLen = b, !.autostart = a]
    IN IF ~s1.running /\ ~s1.inSession
       THEN [s1 EXCEPT !.duration = ModeLen(s1),
                       !.count = ModeLen(s1) * 60 * 1000]
       ELSE s1

tickElapsed_noclamp(s, t) == s.elapsed + t

\* the update callback of Timer.tick: elapsed after a tick of t while running
tickElapsed(s, t) ==
    IF s.elapsed + t >= s.count THEN s.count ELSE s.elapsed + t

tickAdvances_inSession(s) == s.inSession

\* Timer.tick: does this tick advance the state at all
tickAdvances(s) == s.running

resetLogs_gt(s) == s.elapsed > 60000

\* Timer.reset: is the partial session logged
resetLogs(s) == s.elapsed >= 60000

createLogContext_late(s, tk) ==
    [mode |-> endSession(s).mode, elapsed |-> endSession(s).elapsed,
     count |-> endSession(s).count, duration |-> endSession(s).duration,
     startTime |-> endSession(s).startTime,
     inSession |-> endSession(s).inSession, task |-> tk]

\* Timer.createLogContext: a copy of the state and of the active task
createLogContext(s, tk) ==
    [mode |-> s.mode, elapsed |-> s.elapsed, count |-> s.count,
     duration |-> s.duration, startTime |-> s.startTime,
     inSession |-> s.inSession, task |-> tk]

\* Timer.processLog up to its first await; src names the caller
processLog(ctx) ==
    [ctx |-> ctx, src |-> "timeup",
     pc |-> IF ctx.mode = "WORK" THEN "actual" ELSE "log"]

\* Timer.reset calls logger.log directly
resetLog(ctx) == [ctx |-> ctx, src |-> "reset", pc |-> "log"]

----------------------------------------------------------------------------
(* Logger *)

resolveLogFile_kindFirst(ctx, st) ==
    IF st.logLevel # "ALL" /\ st.logLevel # ctx.mode THEN ""
    ELSE IF st.logFile = "NONE" THEN ""
    ELSE IF st.logFocused /\ st.taskFile THEN "FOCUSED"
    ELSE IF st.logFile = "FILE" THEN "FILE" ELSE ""

resolveLogFile_anyLevel(ctx, st) ==
    IF st.logFocused /\ st.taskFile THEN "FOCUSED"
    ELSE IF st.logFile = "NONE" THEN ""
    ELSE IF st.logFile = "FILE" THEN "FILE" ELSE ""

\* Logger.resolveLogFile: "" when no target resolves, "FOCUSED" for the
\* document of ctx.task.path, "FILE" for the configured log file
resolveLogFile(ctx, st) ==
    IF st.logLevel # "ALL" /\ st.logLevel # ctx.mode THEN ""
    ELSE IF st.logFocused /\ st.taskFile THEN "FOCUSED"
    ELSE IF st.logFile = "NONE" THEN ""
    ELSE IF st.logFile = "FILE" THEN "FILE" ELSE ""

createLog_roundUp(ctx, t) ==
    [mode |-> ctx.mode, duration |-> (ctx.elapsed + 59999) \div 60000,
     begin |-> ctx.startTime, end |-> t, session |-> ctx.duration,
     task |-> ctx.task, finished |-> (ctx.count = ctx.elapsed)]

\* Logger.createLog
createLog(ctx, t) ==
    [mode |-> ctx.mode, duration |-> ctx.elapsed \div 60000,
     begin |-> ctx.startTime, end |-> t, session |-> ctx.duration,
     task |-> ctx.task, finished |-> (ctx.count = ctx.elapsed)]

----------------------------------------------------------------------------
(* Text.  A line of text is a sequence of tokens <<kind, value>>, read     *)
(* with one space between tokens; the empty sequence is the empty string.  *)

Lit(v) == <<"lit", v>>

Kind(tok) == tok[1]

Val(tok) == tok[2]

RECURSIVE Digits(_)
\* the decimal digits `${n}` writes for an integer n >= 0
Digits(n) ==
    IF n < 10 THEN << <<"digit", n>> >>
    ELSE Append(Digits(n \div 10), <<"digit", n % 10>>)

\* moment(t).format('YYYY-MM-DD HH:mm'): the day, the hour and the minute
formatDate(t) ==
    IF t = Null THEN Lit("Invalid date")
    ELSE <<"date", <<t \div 86400000, (t \div 3600000) % 24,
                     (t \div 60000) % 60>> >>

\* moment(t).format('HH:mm')
formatTime(t) ==
    IF t = Null THEN Lit("Invalid date")
    ELSE <<"time", <<(t \div 3600000) % 24, (t \div 60000) % 60>> >>

\* TaskItem.blockLink of the task the tracker holds: the characters after
\* the caret, none for DEFAULT_TASK
blockLinkOf(tk) == IF tk = NoTask THEN << >> ELSE << tk >>

toText_skipUnfinished(log, st) ==
    IF ~log.finished THEN << >>
    ELSE IF st.logFormat = "SIMPLE" THEN << Lit("**") >>
    ELSE IF st.logFormat = "VERBOSE" THEN << Lit("-") >>
    ELSE << >>

\* Logger.toText for the built-in formats: the text of the entry
toText(log, st) ==
    IF ~log.finished /\ log.mode = "BREAK" THEN << >>
    ELSE IF st.logFormat = "SIMPLE"
    THEN << Lit("**"), Lit(log.mode), Lit("(") >>
         \o Digits(log.duration)
         \o << Lit("m"), Lit(")**:"), formatTime(log.begin), Lit("-"),
               formatTime(log.end) >>
    ELSE IF st.logFormat = "VERBOSE"
    THEN LET taskId == IF blockLinkOf(log.task) # << >>
                       THEN <<"id", blockLinkOf(log.task)>>
                       ELSE Lit("N/A")
             emoji  == IF log.mode = "WORK" THEN "tomato" ELSE "cup"
         IN << Lit("-"), Lit(emoji), Lit("(pomodoro::"), Lit(log.mode),
               Lit(")"), Lit("(taskID::"), taskId, Lit(")"),
               Lit("(duration::") >>
            \o Digits(log.duration)
            \o << Lit("m"), Lit(")"), Lit("(begin::"), formatDate(log.begin),
                  Lit(")"), Lit("-"), Lit("(end::"), formatDate(log.end),
                  Lit(")") >>
    ELSE << >>

\* Logger.log: the entries written for a context (none or one)
log(ctx, st, t) ==
    LET logFile == resolveLogFile(ctx, st)
        entry   == createLog(ctx, t)
    IN IF logFile # "" /\ toText(entry, st) # << >>
       THEN << entry @@ [target |-> logFile] >>
       ELSE << >>

----------------------------------------------------------------------------
(* Documents.  A document is the sequence of its lines, content.split of   *)
(* the line feed; a line is its leading tabs and the text after them.      *)

Line(i, text) == [indent |-> i, text |-> text]

\* is  a  a run of consecutive characters of  b
Infix(a, b) ==
    \E i \in 0..(Len(b) - Len(a)) : SubSeq(b, i + 1, i + Len(a)) = a

\* lines[i].includes(searchBlockLink): a caret followed by the searched
\* characters occurs in the line
includes(line, bl) ==
    \E j \in 1..Len(line.text) :
        Kind(line.text[j]) = "anchor" /\ Infix(bl, Val(line.text[j]))

\* taskLine.match(/^([\t ]*)-\s\[.?\]/): the indentation of a task line,
\* none when the line does not have the shape of a task
baseIndentation(line) ==
    IF /\ Len(line.text) >= 2
       /\ line.text[1] = Lit("-")
       /\ Kind(line.text[2]) = "box"
    THEN line.indent
    ELSE 0

logIndentation_same(line) == baseIndentation(line)

\* baseIndentation ? baseIndentation + '\t' : '\t'
logIndentation(line) ==
    IF baseIndentation(line) # 0 THEN baseIndentation(line) + 1 ELSE 1

\* currentLine.trim().startsWith('-') || currentLine.trim().startsWith('*')
startsWithMarker(line) ==
    /\ line.text # << >>
    /\ Kind(line.text[1]) = "lit"
    /\ Val(line.text[1]) \in {"-", "*", "**"}

\* the loop of Logger.log consumes this line: a list item that starts with
\* the log indentation, or a blank line
consumed(line, ind) ==
    \/ line.indent >= ind /\ startsWithMarker(line)
    \/ line.text = << >>

scan_first(lines, i, ins, ind) == ins

RECURSIVE scan(_, _, _, _)
\* the loop of Logger.log from line i on: the number of lines that end up
\* above the new line (insertIndex), ins so far
scan(lines, i, ins, ind) ==
    IF i > Len(lines) THEN ins
    ELSE IF consumed(lines[i], ind) THEN scan(lines, i + 1, i, ind)
    ELSE ins

\* the first line that includes the block link, 0 when there is none
\* (targetLineIndex + 1)
targetLine(lines, bl) ==
    LET found == {i \in 1..Len(lines) : includes(lines[i], bl)}
    IN IF bl = << >> \/ found = {} THEN 0
       ELSE CHOOSE i \in found : \A j \in found : i <= j

\* the index the new line gets in the document: under the task when its
\* block link is found, at the end otherwise
insertIndex(lines, bl) ==
    LET t == targetLine(lines, bl)
    IN IF t = 0 THEN Len(lines) + 1
       ELSE scan(lines, t + 1, t, logIndentation(lines[t])) + 1

writeLog_replace(lines, bl, logText) ==
    LET k == insertIndex(lines, bl)
        t == targetLine(lines, bl)
        new == Line(IF t = 0 THEN 0 ELSE logIndentation(lines[t]), logText)
    IN IF k <= Len(lines) THEN [lines EXCEPT ![k] = new]
       ELSE Append(lines, new)

writeLog_dropUnanchored(lines, bl, logText) ==
    LET k == insertIndex(lines, bl)
        t == targetLine(lines, bl)
        new == Line(logIndentation(lines[t]), logText)
    IN IF t = 0 THEN lines
       ELSE SubSeq(lines, 1, k - 1) \o << new >> \o SubSeq(lines, k, Len(lines))

\* Logger.log, lines 509-557: lines.splice(insertIndex, 0, ...) and
\* vault.modify, or vault.append of a new line
writeLog(lines, bl, logText) ==
    LET k == insertIndex(lines, bl)
        t == targetLine(lines, bl)
        new == Line(IF t = 0 THEN 0 ELSE logIndentation(lines[t]), logText)
    IN SubSeq(lines, 1, k - 1) \o << new >> \o SubSeq(lines, k, Len(lines))

----------------------------------------------------------------------------
(* Log corrector: main.ts correctLogFileTimes *)

\* no match, no number
None == [ok |-> FALSE]

SetMin(S) == CHOOSE x \in S : \A y \in S : x <= y

SetMax(S) == CHOOSE x \in S : \A y \in S : x >= y

\* the places behind position i where the pieces toks follow one another
Places(text, i, toks) ==
    {j \in (i + 1)..(Len(text) - Len(toks) + 1) :
        SubSeq(text, j, j + Len(toks) - 1) = toks}

\* the literal the regex starts with: - tomato (pomodoro::WORK)
WorkHead ==
    << Lit("-"), Lit("tomato"), Lit("(pomodoro::"), Lit("WORK"), Lit(")") >>

\* from "(begin::" at b on: the lazy groups stop at the first ") - (end::"
\* and at the first ")" behind it
tailMatch(text, b) ==
    LET cs == Places(text, b, << Lit(")"), Lit("-"), Lit("(end::") >>)
    IN IF cs = {} THEN None
       ELSE LET c  == SetMin(cs)
                es == Places(text, c + 2, << Lit(")") >>)
            IN IF es = {} THEN None
               ELSE [ok |-> TRUE, b |-> b, c |-> c, e |-> SetMin(es)]

\* from "(duration::" at p on: the lazy group stops at the first ")", the
\* greedy .* runs to the last "(begin::" the rest still matches from
durationMatch(text, p) ==
    LET qs == Places(text, p, << Lit(")") >>)
    IN IF qs = {} THEN None
       ELSE LET q  == SetMin(qs)
                bs == {b \in Places(text, q, << Lit("(begin::") >>) :
                          tailMatch(text, b).ok}
            IN IF bs = {} THEN None
               ELSE tailMatch(text, SetMax(bs)) @@ [p |-> p, q |-> q]

regexMatch_anyMode(text) ==
    LET ps == {p \in Places(text, 0, << Lit("(duration::") >>) :
                  durationMatch(text, p).ok}
    IN IF ps = {} THEN None
       ELSE LET m == durationMatch(text, SetMax(ps))
            IN [ok |-> TRUE,
                prefix   |-> SubSeq(text, 1, m.p - 1),
                duration |-> SubSeq(text, m.p + 1, m.q - 1),
                begin    |-> SubSeq(text, m.b + 1, m.c - 1),
                end      |-> SubSeq(text, m.c + 3, m.e - 1)]

\* line.match(regex): the leftmost match, the greedy .* of the first group
\* running to the last "(duration::" the rest still matches from; the four
\* groups, or no match
regexMatch(text) ==
    LET ss == Places(text, 0, WorkHead)
        s  == SetMin(ss)
        ps == {p \in Places(text, s + Len(WorkHead) - 1,
                             << Lit("(duration::") >>) :
                  durationMatch(text, p).ok}
    IN IF ss = {} \/ ps = {} THEN None
       ELSE LET m == durationMatch(text, SetMax(ps))
            IN [ok |-> TRUE,
                prefix   |-> SubSeq(text, s, m.p - 1),
                duration |-> SubSeq(text, m.p + 1, m.q - 1),
                begin    |-> SubSeq(text, m.b + 1, m.c - 1),
                end      |-> SubSeq(text, m.c + 3, m.e - 1)]

RECURSIVE parseInt(_)
\* parseInt of a run of digits
parseInt(ds) ==
    IF ds = << >> THEN 0
    ELSE parseInt(SubSeq(ds, 1, Len(ds) - 1)) * 10 + Val(ds[Len(ds)])

\* str.match(/(\d+)\s*u/): the number in front of the first unit u that
\* has digits in front of it, 0 when there is none
unitMatch(str, u) ==
    LET us == {j \in 2..Len(str) :
                  str[j] = Lit(u) /\ Kind(str[j - 1]) = "digit"}
    IN IF us = {} THEN 0
       ELSE LET j == SetMin(us)
                i == SetMin({a \in 1..(j - 1) :
                               \A x \in a..(j - 1) : Kind(str[x]) = "digit"})
            IN parseInt(SubSeq(str, i, j - 1))

\* parseDuration: minutes of the hours part plus the minutes part
parseDuration(str) == unitMatch(str, "h") * 60 + unitMatch(str, "m")

parseDate_timeOnly(str) ==
    IF Len(str) = 1 /\ Kind(str[1]) = "date"
    THEN [ok |-> TRUE, min |-> Val(str[1])[2] * 60 + Val(str[1])[3]]
    ELSE None

\* moment(str, 'YYYY-MM-DD HH:mm'): the minute the text names, no number
\* when the text is not a date
parseDate(str) ==
    IF Len(str) = 1 /\ Kind(str[1]) = "date"
    THEN [ok |-> TRUE,
          min |-> (Val(str[1])[1] * 24 + Val(str[1])[2]) * 60 + Val(str[1])[3]]
    ELSE None

needsCorrection_or(real, logged) == real < 3 \/ logged > 20

\* realDuration < 3 && loggedDuration > 20
needsCorrection(real, logged) == real < 3 /\ logged > 20

\* does the map callback rewrite this line
corrects(line) ==
    LET m == regexMatch(line.text)
    IN /\ m.ok
       /\ parseDate(m.begin).ok
       /\ parseDate(m.end).ok
       /\ needsCorrection(parseDate(m.end).min - parseDate(m.begin).min,
                          parseDuration(m.duration))

\* the map callback of correctLogFileTimes: the line it returns
correctLine(line) ==
    IF corrects(line)
    THEN LET m == regexMatch(line.text)
             correctedEnd == parseDate(m.begin).min + parseDuration(m.duration)
         IN Line(0, m.prefix \o << Lit("(duration::") >> \o m.duration
                    \o << Lit(")"), Lit("(begin::") >> \o m.begin
                    \o << Lit(")"), Lit("-"), Lit("(end::"),
                          formatDate(correctedEnd * 60000), Lit(")") >>)
    ELSE line

----------------------------------------------------------------------------
(* History *)

\* op: the handler that ran last; logs: the log calls it dispatched;
\* written: the entries it wrote to a document
Op(name, logs, written) == [op |-> name, logs |-> logs, written |-> written]

\* a handler hands the log calls  items  (none or one) to the event loop.
\* One log call is followed at a time: a call dispatched while an earlier
\* one is still in flight runs like any other but is not followed, so no
\* handler is ever held back.
Dispatch(items) ==
    pending' = IF tracked /\ pending = << >> THEN items ELSE pending

\* no full reload of the task registry is in flight
NoLoad == [active |-> FALSE, files |-> << >>, allTasks |-> << >>]

\* the documents and the task registry are left out of the timer's runs
NoVault ==
    /\ doc = << >>
    /\ list = << >>
    /\ trackerTask = << >>
    /\ vault = << >>
    /\ load = NoLoad

----------------------------------------------------------------------------
Init ==
    /\ \E w \in WorkLens, b \in BreakLens, a \in BOOLEAN :
          state = InitState(w, b, a)
    /\ now = 0
    /\ task = NoTask
    /\ pinned = FALSE
    /\ pending = << >>
    /\ tracked = FALSE
    /\ lastOp = Op("init", << >>, << >>)
    /\ sessTimeups = 0
    /\ NoVault

TimeupFrom_awaitLog(s, name) ==
    LET ctx == createLogContext(s, task)
    IN /\ Dispatch(<< processLog(ctx) >>)
       /\ state' = [s EXCEPT !.running = FALSE]
       /\ lastOp' = Op(name, << processLog(ctx) >>, << >>)
       /\ sessTimeups' = Min(sessTimeups + 1, 2)
       /\ UNCHANGED <<now, task, pinned, tracked, vaultVars>>

\* Timer.timeup applied to state s: log context first, then endSession,
\* then start() again when autostart is set
TimeupFrom(s, name) ==
    LET ctx == createLogContext(s, task)
        s1  == endSession(s)
        s2  == IF s.autostart THEN start(s1, now) ELSE s1
    IN /\ Dispatch(<< processLog(ctx) >>)
       /\ state' = s2
       /\ lastOp' = Op(name, << processLog(ctx) >>, << >>)
       /\ sessTimeups' = IF s.autostart THEN 0 ELSE Min(sessTimeups + 1, 2)
       /\ UNCHANGED <<now, task, pinned, tracked, vaultVars>>

\* Timer.start
Start ==
    /\ state' = start(state, now)
    /\ sessTimeups' = IF ~state.inSession THEN 0 ELSE sessTimeups
    /\ lastOp' = Op("start", << >>, << >>)
    /\ UNCHANGED <<now, task, pinned, pending, tracked, vaultVars>>

\* Timer.pause
Pause ==
    /\ state' = pause(state)
    /\ lastOp' = Op("pause", << >>, << >>)
    /\ UNCHANGED <<now, task, pinned, pending, tracked, sessTimeups, vaultVars>>

\* Timer.toggleTimer
ToggleTimer ==
    /\ state' = IF state.running THEN pause(state) ELSE start(state, now)
    /\ sessTimeups' = IF ~state.running /\ ~state.inSession THEN 0 ELSE sessTimeups
    /\ lastOp' = Op("toggleTimer", << >>, << >>)
    /\ UNCHANGED <<now, task, pinned, pending, tracked, vaultVars>>

\* Timer.tick, the clock worker's message handler
Tick(t) ==
    IF tickAdvances(state)
    THEN LET s1 == [state EXCEPT !.elapsed = tickElapsed(state, t)]
         IN IF s1.elapsed >= s1.count
            THEN TimeupFrom(s1, "tick")
            ELSE /\ state' = s1
                 /\ lastOp' = Op("tick", << >>, << >>)
                 /\ UNCHANGED <<now, task, pinned, pending, tracked, sessTimeups, vaultVars>>
    ELSE /\ lastOp' = Op("tick", << >>, << >>)
         /\ UNCHANGED <<state, now, task, pinned, pending, tracked, sessTimeups, vaultVars>>

\* Timer.timeup called as a command (manual early finish)
Timeup == TimeupFrom(state, "timeup")

Reset_clearPinned ==
    LET logs == IF resetLogs(state)
                THEN << resetLog(createLogContext(state, task)) >>
                ELSE << >>
    IN /\ Dispatch(logs)
       /\ lastOp' = Op("reset", logs, << >>)
       /\ state' = reset(state)
       /\ task' = NoTask
       /\ UNCHANGED <<now, pinned, tracked, sessTimeups, vaultVars>>

\* Timer.reset
Reset ==
    LET logs == IF resetLogs(state)
                THEN << resetLog(createLogContext(state, task)) >>
                ELSE << >>
    IN /\ Dispatch(logs)
       /\ lastOp' = Op("reset", logs, << >>)
       /\ state' = reset(state)
       /\ task' = IF ~pinned THEN NoTask ELSE task
       /\ UNCHANGED <<now, pinned, tracked, sessTimeups, vaultVars>>

\* removeTask of the timer panel, on the task's deselect button:
\* tracker.clear() and then timer.reset(), which takes its log context from
\* the tracker as clear() left it
RemoveTask ==
    LET logs == IF resetLogs(state)
                THEN << resetLog(createLogContext(state, NoTask)) >>
                ELSE << >>
    IN /\ task # NoTask
       /\ Dispatch(logs)
       /\ lastOp' = Op("removeTask", logs, << >>)
       /\ state' = reset(state)
       /\ task' = NoTask
       /\ UNCHANGED <<now, pinned, tracked, sessTimeups, vaultVars>>

\* Timer.toggleMode
ToggleMode ==
    /\ state' = endSession(state)
    /\ lastOp' = Op("toggleMode", << >>, << >>)
    /\ UNCHANGED <<now, task, pinned, pending, tracked, sessTimeups, vaultVars>>

\* Timer.setupTimer with the settings it reads
SetupTimer(w, b, a) ==
    /\ state' = setupTimer(state, w, b, a)
    /\ lastOp' = Op("setupTimer", << >>, << >>)
    /\ UNCHANGED <<now, task, pinned, pending, tracked, sessTimeups, vaultVars>>

\* tracker.active(task): the user selects a task
Activate(tk) ==
    /\ task # tk
    /\ task' = tk
    /\ lastOp' = Op("active", << >>, << >>)
    /\ UNCHANGED <<state, now, pinned, pending, tracked, sessTimeups, vaultVars>>

\* the tracker's pinned flag is toggled
TogglePinned ==
    /\ pinned' = ~pinned
    /\ lastOp' = Op("pin", << >>, << >>)
    /\ UNCHANGED <<state, now, task, pending, tracked, sessTimeups, vaultVars>>

\* the wall clock advances
AdvanceClock ==
    /\ now < MaxNow
    /\ now' = now + 1
    /\ lastOp' = Op("clock", << >>, << >>)
    /\ UNCHANGED <<state, task, pinned, pending, tracked, sessTimeups, vaultVars>>

\* Timer.processLog: tracker.updateActual() has resolved, logger.log is next
UpdateActualDone ==
    /\ pending # << >>
    /\ pending[1].pc = "actual"
    /\ pending' = [pending EXCEPT ![1].pc = "log"]
    /\ lastOp' = Op("updateActual", << >>, << >>)
    /\ UNCHANGED <<state, now, task, pinned, tracked, sessTimeups, vaultVars>>

\* Logger.log runs for a pending context under the settings st
LogStep(st) ==
    /\ pending # << >>
    /\ pending[1].pc = "log"
    /\ pending' = << >>
    /\ lastOp' = Op("log", pending, log(pending[1].ctx, st, now))
    /\ UNCHANGED <<state, now, task, pinned, tracked, sessTimeups, vaultVars>>

\* the timer engine, the active task and the clock
Next ==
    \/ Start
    \/ Pause
    \/ ToggleTimer
    \/ \E t \in TickDeltas : Tick(t)
    \/ Timeup
    \/ Reset
    \/ RemoveTask
    \/ ToggleMode
    \/ \E w \in WorkLens, b \in BreakLens, a \in BOOLEAN : SetupTimer(w, b, a)
    \/ \E tk \in TaskIds : Activate(tk)
    \/ TogglePinned
    \/ AdvanceClock

Spec == Init /\ [][Next]_vars

\* the timer with its log calls in flight, under fixed configured lengths
InitLog ==
    /\ \E a \in BOOLEAN : state = InitState(MaxWorkLen, MaxBreakLen, a)
    /\ now = 0
    /\ task = NoTask
    /\ pinned = FALSE
    /\ pending = << >>
    /\ tracked = TRUE
    /\ lastOp = Op("init", << >>, << >>)
    /\ sessTimeups = 0
    /\ NoVault

NextLog ==
    \/ Start
    \/ Pause
    \/ \E t \in TickDeltas : Tick(t)
    \/ Timeup
    \/ Reset
    \/ RemoveTask
    \/ ToggleMode
    \/ \E tk \in TaskIds : Activate(tk)
    \/ AdvanceClock
    \/ UpdateActualDone
    \/ \E st \in LogSettings : LogStep(st)

SpecLog == InitLog /\ [][NextLog]_vars

----------------------------------------------------------------------------
(* The logger writing a document *)

MaxDocLen == 3

\* the timer is left out of the runs over documents
NoTimer ==
    /\ state = InitState(1, 1, FALSE)
    /\ task = NoTask
    /\ pinned = FALSE
    /\ pending = << >>
    /\ tracked = FALSE
    /\ sessTimeups = 0

\* the rest of the vault is left out of the runs over one document
NoTasks ==
    /\ list = << >>
    /\ trackerTask = << >>
    /\ vault = << >>
    /\ load = NoLoad

\* a task line "- [ ] task ^a" at indentation i
TaskLine(i, a) ==
    Line(i, << Lit("-"), <<"box", " ">>, Lit("task"), <<"anchor", a>> >>)

\* a list item "- note"
ListLine(i) == Line(i, << Lit("-"), Lit("note") >>)

\* a line of plain text
TextLine(i) == Line(i, << Lit("note") >>)

BlankLine == Line(0, << >>)

\* a finished WORK session of one minute under the task tk
DocContext(tk) ==
    createLogContext(
        [InitState(1, 1, FALSE) EXCEPT !.elapsed = 60000, !.startTime = 0,
                                       !.inSession = TRUE, !.running = TRUE],
        tk)

\* a VERBOSE entry the logger wrote earlier for task 1, at indentation i
EntryLine(i) ==
    Line(i, toText(createLog(DocContext(1), 0), [logFormat |-> "VERBOSE"]))

\* the lines the documents of Init are made of
SampleLines ==
    {TaskLine(0, <<1>>), TaskLine(1, <<1>>), EntryLine(1), ListLine(2),
     TextLine(1), BlankLine}

\* the settings under which those documents are written: the level admits
\* every session and the document is the configured log file, if any
DocSettings ==
    {st \in LogSettings :
        st.logLevel = "ALL" /\ ~st.logFocused /\ ~st.taskFile}

\* the sessions logged into those documents, under no task or one of the
\* tasks
DocContexts == {DocContext(tk) : tk \in {NoTask} \cup TaskIds}

\* Logger.log called with the context ctx under the settings st, from its
\* first line to the write of the document
LogCall(ctx, st) ==
    LET w    == log(ctx, st, now)
        text == toText(createLog(ctx, now), st)
        bl   == blockLinkOf(ctx.task)
        call == [ctx |-> ctx, src |-> "call", pc |-> "log", st |-> st]
    IN /\ Len(doc) < MaxDocLen + 2
       /\ ctx.startTime <= now
       /\ IF w = << >>
          THEN /\ doc' = doc
               /\ lastOp' = Op("log", << call >>, << >>)
          ELSE /\ doc' = writeLog(doc, bl, text)
               /\ lastOp' = Op("log", << call >>,
                               << w[1] @@ [at |-> insertIndex(doc, bl),
                                           format |-> st.logFormat] >>)
       /\ UNCHANGED <<state, now, task, pinned, pending, tracked,
                      sessTimeups, list, trackerTask, vault, load>>

\* any document of up to MaxDocLen sample lines
InitDoc ==
    /\ NoTimer
    /\ NoTasks
    /\ now = 0
    /\ lastOp = Op("init", << >>, << >>)
    /\ \E n \in 1..MaxDocLen : doc \in [1..n -> SampleLines]

NextDoc == \E ctx \in DocContexts, st \in DocSettings : LogCall(ctx, st)

SpecDoc == InitDoc /\ [][NextDoc]_vars

\* the lines of documents in which a task whose block link begins with the
\* block link of task 1 has a line of its own: "- [ ] task ^12" next to
\* "- [ ] task ^1"
AnchorLines == {TaskLine(0, <<1, 2>>), TaskLine(0, <<1>>), TextLine(0)}

\* any document of up to MaxDocLen of those lines
InitAnchor ==
    /\ NoTimer
    /\ NoTasks
    /\ now = 0
    /\ lastOp = Op("init", << >>, << >>)
    /\ \E n \in 1..MaxDocLen : doc \in [1..n -> AnchorLines]

NextAnchor == \E ctx \in DocContexts, st \in DocSettings : LogCall(ctx, st)

SpecAnchor == InitAnchor /\ [][NextAnchor]_vars

\* the sessions whose text is written: either mode, finished or not, begun
\* on the minute or within it, just before midnight too
TextContexts ==
    {createLogContext(
        [InitState(m, m, FALSE) EXCEPT !.mode = md, !.elapsed = e,
                                       !.startTime = t, !.inSession = TRUE],
        tk) :
        m \in {1, 25}, md \in Modes, e \in {30000, 60000, 1500000},
        t \in {0, 30000, 86370000}, tk \in {NoTask} \cup TaskIds}

\* the times the log call runs at
TextTimes == {30000, 1530000, 86370000, 87900000}

\* a log file that is full but for one line; one session is written
InitText ==
    /\ NoTimer
    /\ NoTasks
    /\ now \in TextTimes
    /\ lastOp = Op("init", << >>, << >>)
    /\ doc = [i \in 1..(MaxDocLen + 1) |-> TextLine(0)]

\* Logger.log is applied once to each input
NextText ==
    /\ lastOp.op = "init"
    /\ \E ctx \in {c \in TextContexts : c.elapsed <= c.count},
          st \in LogSettings : LogCall(ctx, st)

SpecText == InitText /\ [][NextText]_vars

----------------------------------------------------------------------------
(* Log calls in flight at once on one document *)

MaxInFlight == 2

\* Logger.log up to its first read of the document: the target resolves
\* and the text is made; without a block link the entry is appended at
\* once, with one the call goes on to read the document
LogBegin(ctx, st) ==
    LET w    == log(ctx, st, now)
        text == toText(createLog(ctx, now), st)
        call == [ctx |-> ctx, src |-> "call", pc |-> "read", st |-> st,
                 lines |-> << >>]
    IN /\ Len(pending) < MaxInFlight
       /\ Len(doc) < MaxDocLen + 2
       /\ w # << >>
       /\ IF blockLinkOf(ctx.task) = << >>
          THEN /\ doc' = Append(doc, Line(0, text))
               /\ pending' = pending
               /\ lastOp' = Op("write", << call >>, w)
          ELSE /\ doc' = doc
               /\ pending' = Append(pending, call)
               /\ lastOp' = Op("begin", << call >>, << >>)
       /\ UNCHANGED <<state, now, task, pinned, tracked, sessTimeups,
                      list, trackerTask, vault, load>>

\* fileContent = await vault.read(logFile) of the i-th call in flight
LogRead(i) ==
    /\ i \in 1..Len(pending)
    /\ pending[i].pc = "read"
    /\ pending' = [pending EXCEPT ![i].pc = "modify", ![i].lines = doc]
    /\ lastOp' = Op("read", << pending[i] >>, << >>)
    /\ UNCHANGED <<state, now, task, pinned, tracked, sessTimeups, doc,
                   list, trackerTask, vault, load>>

\* the rest of the i-th call: the entry is spliced into the lines it read
\* and vault.modify writes them, or vault.append adds it to the document
\* when the lines read do not have the block link
LogModify(i) ==
    /\ i \in 1..Len(pending)
    /\ pending[i].pc = "modify"
    /\ LET c    == pending[i]
           bl   == blockLinkOf(c.ctx.task)
           text == toText(createLog(c.ctx, now), c.st)
       IN /\ doc' = IF targetLine(c.lines, bl) = 0
                    THEN Append(doc, Line(0, text))
                    ELSE writeLog(c.lines, bl, text)
          /\ lastOp' = Op("write", << c >>, log(c.ctx, c.st, now))
    /\ pending' = SubSeq(pending, 1, i - 1)
                  \o SubSeq(pending, i + 1, Len(pending))
    /\ UNCHANGED <<state, now, task, pinned, tracked, sessTimeups,
                   list, trackerTask, vault, load>>

\* the settings of those calls: every session goes to the log file
RaceSettings == {st \in DocSettings : st.logFile = "FILE"}

\* a document with the task line, with a note under it, or without it
InitRace ==
    /\ NoTimer
    /\ NoTasks
    /\ now = 0
    /\ lastOp = Op("init", << >>, << >>)
    /\ doc \in {<< TaskLine(0, << 1 >>) >>,
                << TaskLine(0, << 1 >>), ListLine(1) >>,
                << TextLine(0) >>}

NextRace ==
    \/ \E ctx \in DocContexts, st \in RaceSettings : LogBegin(ctx, st)
    \/ \E i \in 1..MaxInFlight : LogRead(i)
    \/ \E i \in 1..MaxInFlight : LogModify(i)

SpecRace == InitRace /\ [][NextRace]_vars

----------------------------------------------------------------------------
(* The corrector rewriting the log file *)

MaxLogLen == 2

\* the lines of the log files of Init, by what they say: format and mode,
\* logged minutes d, begin and end as minutes b and e, indentation
SampleEntries ==
    [format : {"VERBOSE"}, mode : {"WORK"}, indent : {0},
     d : {7, 20, 21, 30}, b : {600}, e : {595, 601, 603, 607}]
    \cup [format : {"VERBOSE"}, mode : {"WORK"}, indent : {1},
          d : {30}, b : {1430}, e : {1431}]
    \cup [format : {"SIMPLE", "VERBOSE"}, mode : {"BREAK"}, indent : {0},
          d : {30}, b : {600}, e : {601}]
    \cup [format : {"SIMPLE"}, mode : {"WORK"}, indent : {0},
          d : {30}, b : {600}, e : {601}]

\* the line the logger writes for the sample x
EntryText(x) ==
    Line(x.indent,
         toText([mode |-> x.mode, duration |-> x.d, begin |-> x.b * 60000,
                 end |-> x.e * 60000, session |-> x.d, task |-> NoTask,
                 finished |-> TRUE],
                [logFormat |-> x.format]))

SampleLogLines == {EntryText(x) : x \in SampleEntries} \cup {TextLine(0)}

CorrectLogFileTimes_writeAlways(lf, found) ==
    /\ IF lf = "NONE"
       THEN /\ doc' = doc
            /\ lastOp' = Op("noLogFile", << >>, << >>)
       ELSE IF ~found
       THEN /\ doc' = doc
            /\ lastOp' = Op("notFound", << >>, << >>)
       ELSE LET correctedLines == {i \in 1..Len(doc) : corrects(doc[i])}
            IN /\ doc' = [i \in 1..Len(doc) |-> correctLine(doc[i])]
               /\ lastOp' = Op("correct", << >>,
                               << [modify |-> correctedLines] >>)
    /\ UNCHANGED <<state, now, task, pinned, pending, tracked,
                   sessTimeups, list, trackerTask, vault, load>>

\* correctLogFileTimes with the log file setting lf (NONE also for an empty
\* logPath) and a vault that has the log file or not: the file is read,
\* every line goes through the map callback and the file is written back
\* when a line was corrected
CorrectLogFileTimes(lf, found) ==
    /\ IF lf = "NONE"
       THEN /\ doc' = doc
            /\ lastOp' = Op("noLogFile", << >>, << >>)
       ELSE IF ~found
       THEN /\ doc' = doc
            /\ lastOp' = Op("notFound", << >>, << >>)
       ELSE LET correctedLines == {i \in 1..Len(doc) : corrects(doc[i])}
            IN /\ doc' = IF correctedLines # {}
                         THEN [i \in 1..Len(doc) |-> correctLine(doc[i])]
                         ELSE doc
               /\ lastOp' = Op("correct", << >>,
                               IF correctedLines # {}
                               THEN << [modify |-> correctedLines] >>
                               ELSE << >>)
    /\ UNCHANGED <<state, now, task, pinned, pending, tracked,
                   sessTimeups, list, trackerTask, vault, load>>

\* any log file of up to MaxLogLen sample lines
InitFix ==
    /\ NoTimer
    /\ NoTasks
    /\ now = 0
    /\ lastOp = Op("init", << >>, << >>)
    /\ \E n \in 1..MaxLogLen : doc \in [1..n -> SampleLogLines]

NextFix ==
    \E lf \in LogFiles, found \in BOOLEAN : CorrectLogFileTimes(lf, found)

SpecFix == InitFix /\ [][NextFix]_vars

----------------------------------------------------------------------------
(* Task registry: Tasks (src/unnamed/part_002).  A file of the vault is    *)
(* the sequence of its lines; a line is read through the fields the line   *)
(* grammar and the deserializer take from it.                              *)

MaxFileLen == 1
MaxCount == 12

Paths == {"a.md", "b.md"}

\* a line that is no list item
PlainLine ==
    [kind |-> "text", marker |-> "", name |-> "", pomodoros |-> << >>,
     blockLink |-> << >>]

\* a line "- [marker] name [pomodoros] ^blockLink"
RawTask(marker, name, pomodoros, bl) ==
    [kind |-> "task", marker |-> marker, name |-> name,
     pomodoros |-> pomodoros, blockLink |-> bl]

\* the annotation `${l}/${r}`: a side below 0 is left empty, the slash and
\* the right side are written when slash holds
Pomodoros(l, slash, r) ==
    (IF l < 0 THEN << >> ELSE Digits(l))
    \o (IF ~slash THEN << >>
        ELSE << Lit("/") >> \o (IF r < 0 THEN << >> ELSE Digits(r)))

\* metadata.listItems of a file: one item per list line, with the line
\* number from 0 and the character between the brackets
listItems(content) ==
    [i \in 1..Len(content) |->
        [task |-> content[i].marker, line |-> i - 1,
         isItem |-> content[i].kind = "task"]]

\* the cache the metadata cache holds for a file that has one
Metadata(content) == [ok |-> TRUE, listItems |-> listItems(content)]

\* extractTaskComponents(line): status, body and block link, or null for
\* a line that is not of the task shape
extractTaskComponents(line) ==
    IF line.kind # "task" THEN None
    ELSE [ok |-> TRUE, status |-> line.marker,
          body |-> [description |-> line.name, pomodoros |-> line.pomodoros],
          blockLink |-> line.blockLink]

\* DESERIALIZERS[format].deserialize(body)
deserialize(body) == body

split_swapped(str) ==
    LET ps == {j \in 1..Len(str) : str[j] = Lit("/")}
    IN IF ps = {} THEN << << >>, str >>
       ELSE << SubSeq(str, SetMin(ps) + 1, Len(str)),
               SubSeq(str, 1, SetMin(ps) - 1) >>

\* the first two parts of str.split('/'); the second is missing when the
\* string has no slash
split(str) ==
    LET ps == {j \in 1..Len(str) : str[j] = Lit("/")}
        p  == SetMin(ps)
        qs == {j \in ps : j > p}
    IN IF ps = {} THEN << str >>
       ELSE << SubSeq(str, 1, p - 1),
               SubSeq(str, p + 1, IF qs = {} THEN Len(str)
                                  ELSE SetMin(qs) - 1) >>

\* the TaskItem resolveTasks builds for one list item
TaskItem(path, lines, rawElement) ==
    LET lineNr == rawElement.line
        components == extractTaskComponents(lines[lineNr + 1])
        detail == deserialize(components.body)
        parts == split(detail.pomodoros)
        actual == parts[1]
        expected == IF Len(parts) > 1 THEN parts[2] ELSE << >>
    IN [path |-> path, name |-> detail.description,
        status |-> components.status, blockLink |-> components.blockLink,
        checked |-> rawElement.task # "" /\ rawElement.task # " ",
        expected |-> IF expected # << >> THEN parseInt(expected) ELSE 0,
        actual |-> IF actual = << >> THEN 0 ELSE parseInt(actual),
        line |-> lineNr]

RECURSIVE cacheOf(_, _, _, _)
\* the cache of resolveTasks after the first k list items: a record per
\* line number, a later item of the same line replacing an earlier one
cacheOf(path, lines, items, k) ==
    IF k = 0 THEN << >>
    ELSE LET cache == cacheOf(path, lines, items, k - 1)
             rawElement == items[k]
         IN IF ~rawElement.isItem \/ rawElement.task = "" THEN cache
            ELSE IF ~extractTaskComponents(lines[rawElement.line + 1]).ok
            THEN cache
            ELSE [n \in (DOMAIN cache) \cup {rawElement.line} |->
                     IF n = rawElement.line
                     THEN TaskItem(path, lines, rawElement)
                     ELSE cache[n]]

RECURSIVE values(_)
\* Object.values(cache): the records by ascending line number
values(cache) ==
    IF DOMAIN cache = {} THEN << >>
    ELSE LET n == SetMin(DOMAIN cache)
         IN << cache[n] >>
            \o values([m \in (DOMAIN cache) \ {n} |-> cache[m]])

\* resolveTasks(format, file, content, metadata)
resolveTasks(path, content, metadata) ==
    IF content = << >> \/ ~metadata.ok THEN << >>
    ELSE values(cacheOf(path, content, metadata.listItems,
                        Len(metadata.listItems)))

otherTasks_all(lst, path) == lst

otherTasks_none(lst, path) == << >>

\* state.list.filter(task => task.path !== file.path)
otherTasks(lst, path) == SelectSeq(lst, LAMBDA t : t.path # path)

find_first(newTasks, bl) ==
    IF newTasks = << >> THEN << >> ELSE << newTasks[1] >>

\* newTasks.find(item => item.blockLink && item.blockLink === bl): the
\* first record with that block link, none when there is none
find(newTasks, bl) ==
    LET is == {i \in 1..Len(newTasks) :
                  newTasks[i].blockLink # << >> /\ newTasks[i].blockLink = bl}
    IN IF is = {} THEN << >> ELSE << newTasks[SetMin(is)] >>

\* TaskTracker.sync(task): the snapshot is replaced by the refreshed record
sync(tracker, item) == << item >>

\* the 'changed' event of the metadata cache for a file whose content is
\* now `content`, handled by Tasks.updateTasksFromFile
updateTasksFromFile(path, content) ==
    LET newTasks == resolveTasks(path, content, Metadata(content))
        found == IF trackerTask # << >> /\ trackerTask[1].blockLink # << >>
                 THEN find(newTasks, trackerTask[1].blockLink)
                 ELSE << >>
    IN /\ vault' = [vault EXCEPT ![path] = content]
       /\ list' = otherTasks(list, path) \o newTasks
       /\ trackerTask' = IF found # << >> THEN sync(trackerTask, found[1])
                         ELSE trackerTask
       /\ lastOp' = Op("update", << [path |-> path] >>, << >>)
       /\ UNCHANGED <<state, now, task, pinned, pending, tracked,
                      sessTimeups, doc, load>>

\* Tasks.loadAllVaultTasks up to its first await: the files to read, the
\* read of the first of them pending
loadAllVaultTasks(files) ==
    /\ ~load.active
    /\ load' = [active |-> TRUE, files |-> files, allTasks |-> << >>]
    /\ lastOp' = Op("load", << >>, << >>)
    /\ UNCHANGED <<state, now, task, pinned, pending, tracked, sessTimeups,
                   doc, list, trackerTask, vault>>

\* the loop resumed by the cachedRead of a file: its records are pushed
\* when the metadata cache has the file; then the read of the next file is
\* pending or, after the last file, state.list = allTasks
loadFile(hasCache) ==
    LET file == load.files[1]
        content == vault[file]
        metadata == IF hasCache THEN Metadata(content) ELSE None
        allTasks == IF hasCache
                    THEN load.allTasks \o resolveTasks(file, content, metadata)
                    ELSE load.allTasks
    IN /\ load.active /\ load.files # << >>
       /\ IF Tail(load.files) # << >>
          THEN /\ load' = [load EXCEPT !.files = Tail(load.files),
                                       !.allTasks = allTasks]
               /\ list' = list
               /\ lastOp' = Op("read", << [path |-> file] >>, << >>)
          ELSE /\ load' = NoLoad
               /\ list' = allTasks
               /\ lastOp' = Op("loaded", << [path |-> file] >>, << >>)
       /\ UNCHANGED <<state, now, task, pinned, pending, tracked,
                      sessTimeups, doc, trackerTask, vault>>

\* TaskTracker.active(task): the user picks a record of the list
active(i) ==
    /\ i \in 1..Len(list)
    /\ trackerTask # << list[i] >>
    /\ trackerTask' = << list[i] >>
    /\ lastOp' = Op("active", << >>, << >>)
    /\ UNCHANGED <<state, now, task, pinned, pending, tracked, sessTimeups,
                   doc, list, vault, load>>

\* the task lines the files of the runs are made of: a task with a block
\* link, the same task after an edit of its counts and its box, a task
\* without block link, and a line that is no task
RegistryLines ==
    {RawTask(" ", "t", Pomodoros(2, TRUE, 5), << 1 >>),
     RawTask("x", "t", Pomodoros(3, TRUE, 5), << 1 >>),
     RawTask(" ", "u", << >>, << >>),
     PlainLine}

Contents(lines) ==
    UNION {[1..n -> lines] : n \in 0..MaxFileLen}

FileOrders == {<< "a.md", "b.md" >>, << "b.md", "a.md" >>}

InitTasks ==
    /\ NoTimer
    /\ doc = << >>
    /\ now = 0
    /\ lastOp = Op("init", << >>, << >>)
    /\ list = << >>
    /\ trackerTask = << >>
    /\ vault = [p \in Paths |-> << >>]
    /\ load = NoLoad

NextTasks ==
    \/ \E p \in Paths, c \in Contents(RegistryLines) :
          updateTasksFromFile(p, c)
    \/ \E fs \in FileOrders : loadAllVaultTasks(fs)
    \/ \E hasCache \in BOOLEAN : loadFile(hasCache)
    \/ \E i \in 1..(2 * MaxFileLen) : active(i)

SpecTasks == InitTasks /\ [][NextTasks]_vars

----------------------------------------------------------------------------
(* The task parser reading one line *)

\* the character between the brackets of a list item
Markers == {"", " ", "x", "-"}

\* a side of the annotation: empty, or a count
Sides == -1..MaxCount

ParseLine(mk, l, slash, r, bl) ==
    RawTask(mk, "Write report", Pomodoros(l, slash, r), bl)

ParseLines ==
    {ParseLine(mk, l, slash, r, bl) :
        mk \in Markers, l \in Sides, slash \in BOOLEAN, r \in Sides,
        bl \in {<< >>, << 1 >>}}

\* the file a.md is written once, with one line
NextParse ==
    /\ lastOp.op = "init"
    /\ \E line \in ParseLines : updateTasksFromFile("a.md", << line >>)

SpecParse == InitTasks /\ [][NextParse]_vars

----------------------------------------------------------------------------
(* Properties *)

\* the log calls dispatched by the handler that ran last
Dispatched == {lastOp.logs[i] : i \in 1..Len(lastOp.logs)}

\* the last handler was a tick that ran timeup
NaturalTimeup == lastOp.op = "tick" /\ lastOp.logs # << >>

Opposite(m) == IF m = "WORK" THEN "BREAK" ELSE "WORK"

\* C1: in every reachable state 0 <= elapsed <= count; the state a tick
\* publishes before timeup runs (the one the log context copies) included.
C1_ElapsedWithinCount ==
    /\ 0 <= state.elapsed
    /\ state.elapsed <= state.count
    /\ \A d \in Dispatched : 0 <= d.ctx.elapsed /\ d.ctx.elapsed <= d.ctx.count

\* a settings change arrived in the middle of a session whose count it no
\* longer matches
C1_Witness ==
    /\ lastOp.op = "setupTimer"
    /\ state.inSession
    /\ state.elapsed >= 60000
    /\ state.count # ModeLen(state) * 60 * 1000

\* C2: running implies inSession.
C2_RunningImpliesInSession == state.running => state.inSession

\* toggleTimer has started a BREAK session from Idle
C2_Witness ==
    /\ lastOp.op = "toggleTimer"
    /\ state.running
    /\ state.inSession
    /\ state.mode = "BREAK"

\* C3: startTime is non-null exactly when inSession.
C3_StartTimeIffInSession == (state.startTime # Null) <=> state.inSession

\* a session that was started, then reset
C3_Witness ==
    /\ lastOp.op = "reset"
    /\ lastOp.logs # << >>
    /\ lastOp.logs[1].ctx.startTime # Null
    /\ state.startTime = Null
    /\ ~state.inSession

\* C4: a tick while running that reaches or exceeds count pins elapsed to
\* count and runs timeup exactly once; one that stays below count only
\* advances elapsed and runs no timeup.
C4_TickTimeup ==
    [][\A t \in TickDeltas :
          (Tick(t) /\ state.running) =>
             IF state.elapsed + t >= state.count
             THEN /\ Len(lastOp'.logs) = 1
                  /\ lastOp'.logs[1].src = "timeup"
                  /\ lastOp'.logs[1].ctx.elapsed = state.count
                  /\ lastOp'.logs[1].ctx.count = state.count
                  /\ state'.elapsed = 0
                  /\ sessTimeups' = (IF state.autostart THEN 0 ELSE 1)
             ELSE /\ lastOp'.logs = << >>
                  /\ state' = [state EXCEPT !.elapsed = state.elapsed + t]
                  /\ sessTimeups' = sessTimeups]_vars

\* a tick overshot count and was pinned
C4_Witness ==
    /\ NaturalTimeup
    /\ lastOp.logs[1].ctx.elapsed = lastOp.logs[1].ctx.count
    /\ lastOp.logs[1].ctx.count = 60000

\* C5: a tick while not running changes nothing and runs no timeup or log.
C5_StaleTickNoOp ==
    [][\A t \in TickDeltas :
          (Tick(t) /\ ~state.running) =>
             /\ UNCHANGED <<state, task, pinned, pending, sessTimeups>>
             /\ lastOp'.logs = << >>
             /\ lastOp'.written = << >>]_vars

\* a tick arrived while the session was paused
C5_Witness ==
    /\ lastOp.op = "tick"
    /\ state.inSession
    /\ ~state.running
    /\ state.elapsed > 0

\* C6: without autostart and with breakLen > 0, the tick that completes a
\* WORK session runs exactly one timeup and leaves the timer Idle in BREAK
\* with elapsed 0, no startTime and count = breakLen x 60000.
C6_WorkSessionEnds ==
    (/\ NaturalTimeup
     /\ lastOp.logs[1].ctx.mode = "WORK"
     /\ ~state.autostart
     /\ state.breakLen > 0)
    => /\ Len(lastOp.logs) = 1
       /\ sessTimeups = 1
       /\ lastOp.logs[1].ctx.elapsed = lastOp.logs[1].ctx.count
       /\ state.mode = "BREAK"
       /\ ~state.inSession
       /\ ~state.running
       /\ state.elapsed = 0
       /\ state.startTime = Null
       /\ state.count = state.breakLen * 60000

C6_Witness ==
    /\ NaturalTimeup
    /\ lastOp.logs[1].ctx.mode = "WORK"
    /\ lastOp.logs[1].ctx.count = 120000
    /\ ~state.autostart
    /\ state.breakLen = 1
    /\ state.count = 60000

\* C7: with autostart and breakLen > 0 every natural timeout leaves the
\* timer Running in the mode opposite to the session that ended, with
\* elapsed 0 and count = that mode's length x 60000; the first session is WORK.
C7_AutostartAlternates ==
    /\ lastOp.op = "init" => state.mode = "WORK"
    /\ (NaturalTimeup /\ state.autostart /\ state.breakLen > 0)
       => /\ state.mode = Opposite(lastOp.logs[1].ctx.mode)
          /\ state.running
          /\ state.inSession
          /\ state.elapsed = 0
          /\ state.startTime = now
          /\ state.count = ModeLen(state) * 60000

\* a BREAK session ended by itself and a WORK session is running again
C7_Witness ==
    /\ NaturalTimeup
    /\ state.autostart
    /\ state.breakLen > 0
    /\ lastOp.logs[1].ctx.mode = "BREAK"
    /\ state.mode = "WORK"
    /\ state.running

\* C8 as stated: whenever the timer's breakLen is 0 the mode is WORK.
C8_BreakLenZeroModeWork == state.breakLen = 0 => state.mode = "WORK"

\* the fields of the log context that describe the timer state s and task tk
Describes(ctx, s, tk) ==
    /\ ctx.mode = s.mode
    /\ ctx.elapsed = s.elapsed
    /\ ctx.count = s.count
    /\ ctx.duration = s.duration
    /\ ctx.startTime = s.startTime
    /\ ctx.task = tk

\* the written entry is the one createLog derives from the context
EntryOf(e, ctx) ==
    /\ e.mode = ctx.mode
    /\ e.duration * 60000 <= ctx.elapsed
    /\ ctx.elapsed < (e.duration + 1) * 60000
    /\ e.begin = ctx.startTime
    /\ e.session = ctx.duration
    /\ e.task = ctx.task
    /\ e.finished = (ctx.elapsed = ctx.count)

C10_TimeupLogsEndedSession ==
    [][/\ Timeup =>
            /\ Len(lastOp'.logs) = 1
            /\ lastOp'.logs[1].src = "timeup"
            /\ Describes(lastOp'.logs[1].ctx, state, task)
       /\ (\E t \in TickDeltas : Tick(t) /\ lastOp'.logs # << >>) =>
            /\ Len(lastOp'.logs) = 1
            /\ lastOp'.logs[1].src = "timeup"
            /\ Describes(lastOp'.logs[1].ctx,
                         [state EXCEPT !.elapsed = state.count], task)
       /\ (pending = << >> /\ pending' # << >>) => pending' = lastOp'.logs
       /\ (pending # << >> /\ lastOp'.op # "log") =>
            /\ pending' # << >>
            /\ pending'[1].ctx = pending[1].ctx
            /\ pending'[1].src = pending[1].src
       /\ lastOp'.op = "log" =>
            /\ lastOp'.logs = pending
            /\ Len(lastOp'.written) <= 1
            /\ \A i \in 1..Len(lastOp'.written) :
                  EntryOf(lastOp'.written[i], pending[1].ctx)]_vars

\* the entry of an ended WORK session is written while the next session,
\* started later under another task, is already under way
C10_Witness ==
    /\ lastOp.op = "log"
    /\ lastOp.logs[1].src = "timeup"
    /\ Len(lastOp.written) = 1
    /\ lastOp.written[1].mode = "WORK"
    /\ lastOp.written[1].finished
    /\ state.mode = "BREAK"
    /\ state.inSession
    /\ state.startTime # lastOp.written[1].begin
    /\ task # lastOp.written[1].task

\* C11 as stated: under autostart the session that start() begins has a
\* startTime strictly after the end time written in the entry of the session
\* that just ended.  Checked where the timeup that ended the session is the
\* last handler that ran before its log call writes the entry.
C11_NextStartAfterLoggedEnd ==
    [][\A st \in LogSettings :
          (/\ LogStep(st)
           /\ lastOp.op \in {"tick", "timeup"}
           /\ lastOp.logs = pending
           /\ state.autostart
           /\ lastOp'.written # << >>)
          => /\ state.inSession
             /\ state.startTime > lastOp'.written[1].end]_vars

\* the last handler was a direct call of Logger.log
LoggerCalled == lastOp.op = "log" /\ lastOp.logs[1].src = "call"

\* C12: for the SIMPLE and VERBOSE formats, once a target resolves, a session
\* that did not finish (elapsed # count) is written when its mode is WORK and
\* is not written (empty text, document untouched) when its mode is BREAK; a
\* finished session is written in either mode.
C12_UnfinishedPolicy ==
    [][(/\ LoggerCalled'
        /\ resolveLogFile(lastOp'.logs[1].ctx, lastOp'.logs[1].st) # "")
       => LET ctx == lastOp'.logs[1].ctx
          IN IF ctx.elapsed = ctx.count \/ ctx.mode = "WORK"
             THEN /\ Len(lastOp'.written) = 1
                  /\ Len(doc') = Len(doc) + 1
                  /\ doc'[lastOp'.written[1].at].text # << >>
             ELSE /\ lastOp'.written = << >>
                  /\ doc' = doc]_vars

\* an unfinished WORK session was written
C12_Witness ==
    /\ LoggerCalled
    /\ Len(lastOp.written) = 1
    /\ lastOp.written[1].mode = "WORK"
    /\ ~lastOp.written[1].finished
    /\ doc[lastOp.written[1].at].text # << >>

\* the text of the line is an entry of the logger, SIMPLE or VERBOSE
IsEntry(line) ==
    /\ Len(line.text) >= 2
    /\ \/ line.text[1] = Lit("-") /\ line.text[2] \in {Lit("tomato"), Lit("cup")}
       \/ line.text[1] = Lit("**") /\ line.text[2] \in {Lit("WORK"), Lit("BREAK")}

\* line j lies under the task line t: everything from t + 1 to j is blank
\* or indented at least at the child level ind
Under(lines, t, j, ind) ==
    /\ t < j
    /\ \A i \in (t + 1)..j : lines[i].text = << >> \/ lines[i].indent >= ind

\* the log call that ran last wrote an entry under the line of its task:
\* the line found in the document before the call, 0 when none was
AnchorLine(lines) ==
    IF LoggerCalled' /\ lastOp'.written # << >>
    THEN targetLine(lines, blockLinkOf(lastOp'.written[1].task))
    ELSE 0

\* the new line goes behind the run of consumed lines that follows the
\* task line t, and nothing else in the document changes
InsertedAfterRun(t) ==
    LET k   == lastOp'.written[1].at
        ind == logIndentation(doc[t])
    IN /\ k > t
       /\ \A j \in (t + 1)..(k - 1) : consumed(doc[j], ind)
       /\ k <= Len(doc) => ~consumed(doc[k], ind)
       /\ Len(doc') = Len(doc) + 1
       /\ doc'[k].indent = ind
       /\ IsEntry(doc'[k])
       /\ \A j \in 1..(k - 1) : doc'[j] = doc[j]
       /\ \A j \in k..Len(doc) : doc'[j + 1] = doc[j]

\* C13 as stated: when the anchor line is found the new line is inserted
\* behind the run of blank lines and child list items that follows it, and
\* every child log line the task already has stays above the new one.
C13_AllChildLogsAbove ==
    [][AnchorLine(doc) # 0 =>
          LET t   == AnchorLine(doc)
              ind == logIndentation(doc[t])
          IN /\ InsertedAfterRun(t)
             /\ \A j \in (t + 1)..Len(doc) :
                   (Under(doc, t, j, ind) /\ doc[j].indent = ind
                    /\ IsEntry(doc[j]))
                   => j < lastOp'.written[1].at]_vars

\* how many lines of the document are equal to the line l
Occurs(lines, l) == Cardinality({i \in 1..Len(lines) : lines[i] = l})

\* C14: no deduplication.  Every log call that resolves a target and produces
\* a non-empty text adds exactly one line, carrying that text, to the
\* document: the lines it had all stay, in their order, and the document
\* holds one more copy of the written line than before, also when the same
\* context was logged just before and an identical line is already there.
C14_OneLinePerCall ==
    [][LoggerCalled' =>
          LET ctx  == lastOp'.logs[1].ctx
              st   == lastOp'.logs[1].st
              text == toText(createLog(ctx, now), st)
          IN IF resolveLogFile(ctx, st) # "" /\ text # << >>
             THEN LET k == lastOp'.written[1].at
                  IN /\ Len(lastOp'.written) = 1
                     /\ Len(doc') = Len(doc) + 1
                     /\ k \in 1..Len(doc')
                     /\ doc'[k].text = text
                     /\ \A j \in 1..(k - 1) : doc'[j] = doc[j]
                     /\ \A j \in k..Len(doc) : doc'[j + 1] = doc[j]
                     /\ Occurs(doc', doc'[k]) = Occurs(doc, doc'[k]) + 1
             ELSE /\ lastOp'.written = << >>
                  /\ doc' = doc]_vars

\* the same context was logged twice in succession: two identical lines
C14_Witness ==
    /\ LoggerCalled
    /\ Len(lastOp.written) = 1
    /\ lastOp.written[1].at >= 2
    /\ doc[lastOp.written[1].at - 1] = doc[lastOp.written[1].at]
    /\ Occurs(doc, doc[lastOp.written[1].at]) >= 2
    /\ Len(doc) = MaxDocLen + 2

\* a sample entry and what a correction makes of it
AllEntries ==
    SampleEntries
    \cup {[x EXCEPT !.e = x.b + x.d, !.indent = 0] : x \in SampleEntries}

\* the entry is a VERBOSE WORK line whose end is less than 3 minutes after
\* its begin and whose logged duration is more than 20 minutes
Mismatch(x) ==
    /\ x.format = "VERBOSE"
    /\ x.mode = "WORK"
    /\ x.e - x.b < 3
    /\ x.d > 20

\* C15: the corrector rewrites a line exactly when it is a VERBOSE WORK line
\* with end - begin < 3 minutes and a logged duration > 20 minutes; the
\* rewritten line has the same duration and begin and the end begin +
\* duration; every other line passes through unchanged.
C15_CorrectsMismatchOnly ==
    [][lastOp'.op = "correct" =>
          /\ Len(doc') = Len(doc)
          /\ \A i \in 1..Len(doc) :
                /\ doc[i] = TextLine(0) => doc'[i] = doc[i]
                /\ \A x \in AllEntries :
                      doc[i] = EntryText(x) =>
                         IF Mismatch(x)
                         THEN doc'[i].text
                                 = EntryText([x EXCEPT !.e = x.b + x.d]).text
                         ELSE doc'[i] = doc[i]]_vars

\* logged 30 with 1 real minute was moved to begin + 30, next to an entry
\* of logged 7 with 1 real minute that was left as it was
C15_Witness ==
    /\ lastOp.op = "correct"
    /\ lastOp.written # << >>
    /\ \E i, j \in 1..Len(doc) :
          /\ doc[i] = EntryText([format |-> "VERBOSE", mode |-> "WORK",
                                 indent |-> 0, d |-> 30, b |-> 600, e |-> 630])
          /\ doc[j] = EntryText([format |-> "VERBOSE", mode |-> "WORK",
                                 indent |-> 0, d |-> 7, b |-> 600, e |-> 601])

\* C16: the corrector is idempotent: a pass that follows a pass changes no
\* line and does not write the file.
C16_SecondPassNoChange ==
    [][(lastOp.op = "correct" /\ lastOp'.op = "correct")
       => /\ doc' = doc
          /\ lastOp'.written = << >>]_vars

\* a pass found nothing to correct in a file an earlier pass had corrected
C16_Witness ==
    /\ lastOp.op = "correct"
    /\ lastOp.written = << >>
    /\ \E i \in 1..Len(doc) :
          doc[i] = EntryText([format |-> "VERBOSE", mode |-> "WORK",
                              indent |-> 0, d |-> 30, b |-> 1430, e |-> 1460])

\* C17: round trip.  The VERBOSE line the logger writes for a WORK session is
\* matched by the corrector's regex, and the duration, begin and end the
\* corrector reads from it are the minutes that were formatted: the entry's
\* duration and the minute its begin and its end fall in.
C17_RoundTrip ==
    (/\ LoggerCalled
     /\ lastOp.written # << >>
     /\ lastOp.written[1].mode = "WORK"
     /\ lastOp.written[1].format = "VERBOSE")
    => LET e == lastOp.written[1]
           m == regexMatch(doc[e.at].text)
       IN /\ m.ok
          /\ parseDuration(m.duration) = e.duration
          /\ parseDate(m.begin).ok
          /\ parseDate(m.begin).min = e.begin \div 60000
          /\ parseDate(m.end).ok
          /\ parseDate(m.end).min = e.end \div 60000

\* a WORK session of 25 minutes begun half a minute before midnight was
\* written the day after
C17_Witness ==
    /\ LoggerCalled
    /\ lastOp.written # << >>
    /\ lastOp.written[1].mode = "WORK"
    /\ lastOp.written[1].format = "VERBOSE"
    /\ lastOp.written[1].duration = 25
    /\ lastOp.written[1].begin = 86370000
    /\ lastOp.written[1].end = 87900000
    /\ regexMatch(doc[lastOp.written[1].at].text).ok

\* the records the list holds for the file of the last update
NewRecords(lst, op) ==
    {lst[i] : i \in {j \in 1..Len(lst) : lst[j].path = op.logs[1].path}}

\* C18: after a per-document update, a pointer that has a block link holds
\* the refreshed fields of a new record of that document with the same
\* block link when there is one, and otherwise keeps the snapshot it had:
\* it is neither changed nor cleared
C18_PointerFollowsAnchor ==
    [][(lastOp'.op = "update" /\ trackerTask # << >>
        /\ trackerTask[1].blockLink # << >>)
       => LET same == {r \in NewRecords(list', lastOp') :
                          r.blockLink = trackerTask[1].blockLink}
          IN IF same # {} THEN /\ trackerTask' # << >>
                               /\ trackerTask'[1] \in same
             ELSE trackerTask' = trackerTask]_vars

\* the pointer holds a snapshot no record of the list has any more: the
\* last update took the task line out of the file the snapshot came from
C18_Witness ==
    /\ lastOp.op = "update"
    /\ trackerTask # << >>
    /\ trackerTask[1].blockLink # << >>
    /\ trackerTask[1].path = lastOp.logs[1].path
    /\ NewRecords(list, lastOp) = {}

\* the last handler was a per-document update of the task registry
Updated == lastOp.op = "update"

\* C19: at every moment, whatever full reloads and per-document updates
\* ran, the task collection holds at most one record per (path, line)
C19_OneRecordPerLine ==
    \A i, j \in 1..Len(list) :
        list[i].path = list[j].path /\ list[i].line = list[j].line => i = j

\* an update of a file replaced the records the list had for it, and the
\* list holds records of both files
C19_Witness ==
    /\ Updated
    /\ \E i, j \in 1..Len(list) :
          /\ list[i].path # list[j].path
          /\ list[i].path = lastOp.logs[1].path
          /\ list[i].status = "x"
    /\ Len(list) = Cardinality(Paths)

\* C20: the record of a task line has actual = 0 when the left side of
\* its annotation is empty and the value of that side otherwise, expected
\* = 0 when the right side is absent or empty and its value otherwise, and
\* checked exactly when the marker of the list item is neither empty nor
\* a single space
C20_ParsedCounts ==
    \A i \in 1..Len(list) :
        \A mk \in Markers, l \in Sides, slash \in BOOLEAN, r \in Sides :
            LET line == vault[list[i].path][list[i].line + 1]
            IN (line.marker = mk /\ line.pomodoros = Pomodoros(l, slash, r))
               => /\ list[i].actual = (IF l < 0 THEN 0 ELSE l)
                  /\ list[i].expected = (IF ~slash \/ r < 0 THEN 0 ELSE r)
                  /\ list[i].checked = (mk # "" /\ mk # " ")

\* the line "- [ ] Write report 2/5 ^1" was read: 2 of 5, not checked
C20_Witness ==
    /\ Updated
    /\ vault["a.md"] = << ParseLine(" ", 2, TRUE, 5, << 1 >>) >>
    /\ Len(list) = 1
    /\ list[1].actual = 2
    /\ list[1].expected = 5
    /\ list[1].blockLink = << 1 >>
    /\ ~list[1].checked

\* the timer is Idle: no session is in progress
Idle(s) == ~s.inSession /\ ~s.running

\* the length configured in s for the mode m, in milliseconds
ConfiguredCount(s, m) ==
    (IF m = "WORK" THEN s.workLen ELSE s.breakLen) * 60000

\* C21: toggleMode ends the session from any state, whatever elapsed was:
\* afterwards the timer is Idle with elapsed 0 and no start time, the mode
\* is flipped (WORK when breakLen is 0), the count is the configured length
\* of the new mode, and no log call was made
C21_ToggleModeEndsSession ==
    [][lastOp'.op = "toggleMode" =>
          /\ Idle(state')
          /\ state'.elapsed = 0
          /\ state'.startTime = Null
          /\ state'.mode = (IF state.breakLen = 0 THEN "WORK"
                            ELSE IF state.mode = "WORK" THEN "BREAK"
                            ELSE "WORK")
          /\ state'.count = ConfiguredCount(state, state'.mode)
          /\ state'.duration * 60000 = state'.count
          /\ lastOp'.logs = << >>
          /\ lastOp'.written = << >>
          /\ pending' = pending]_vars

\* toggleMode left the timer in BREAK mode with a task still active
C21_Witness ==
    /\ lastOp.op = "toggleMode"
    /\ state.mode = "BREAK"
    /\ state.breakLen > 0
    /\ task # NoTask

\* C22: start() entered from Idle sets elapsed to 0, takes duration and
\* count from the mode and the configured lengths and stamps startTime;
\* entered from Paused it only sets running
C22_StartIdleOrPaused ==
    [][lastOp'.op = "start" =>
          /\ Idle(state) =>
                /\ state'.elapsed = 0
                /\ state'.count = ConfiguredCount(state, state.mode)
                /\ state'.duration * 60000 = state'.count
                /\ state'.startTime = now
                /\ state'.mode = state.mode
                /\ state'.running /\ state'.inSession
          /\ (state.inSession /\ ~state.running) =>
                state' = [state EXCEPT !.running = TRUE]]_vars

\* a paused session was resumed: it runs with the time it had elapsed and
\* the start time it was given before the clock moved on
C22_Witness ==
    /\ lastOp.op = "start"
    /\ state.running
    /\ state.elapsed > 0
    /\ state.elapsed < state.count
    /\ state.startTime # Null
    /\ state.startTime < now

\* C23: setupTimer takes duration and count from the new settings only when
\* the timer is Idle; while a session is in progress, Running or Paused,
\* the count, duration, elapsed time, mode, running flag and start time of
\* the session stay as they are and only the configured lengths change
C23_SetupTimerOnlyWhenIdle ==
    [][lastOp'.op = "setupTimer" =>
          /\ state'.elapsed = state.elapsed
          /\ state'.mode = state.mode
          /\ state'.running = state.running
          /\ state'.inSession = state.inSession
          /\ state'.startTime = state.startTime
          /\ IF Idle(state)
             THEN /\ state'.count = ConfiguredCount(state', state.mode)
                  /\ state'.duration * 60000 = state'.count
             ELSE /\ state'.count = state.count
                  /\ state'.duration = state.duration]_vars

\* the settings were changed during a session: the session keeps a count
\* that is not the length now configured for its mode
C23_Witness ==
    /\ lastOp.op = "setupTimer"
    /\ state.inSession
    /\ state.elapsed > 0
    /\ state.count # ConfiguredCount(state, state.mode)

\* C24: reset() from any state leaves the timer Idle with no start time and
\* elapsed 0, in the mode it was in, with the count of that mode's
\* configured length
C24_ResetToIdle ==
    [][lastOp'.op = "reset" =>
          /\ Idle(state')
          /\ state'.startTime = Null
          /\ state'.elapsed = 0
          /\ state'.mode = state.mode
          /\ state'.count = ConfiguredCount(state, state.mode)
          /\ state'.duration * 60000 = state'.count]_vars

\* a BREAK of the longest configured length was reset: the timer is Idle,
\* still in BREAK mode, with the count of that length
C24_Witness ==
    /\ lastOp.op = "reset"
    /\ state.mode = "BREAK"
    /\ state.breakLen = MaxBreakLen
    /\ state.count = MaxBreakLen * 60000
    /\ Idle(state)

\* C25: reset() clears the active task exactly when it is not pinned, and
\* a timeup or a toggleMode never clears it
C25_PinnedSurvivesReset ==
    [][/\ lastOp'.op = "reset" =>
             task' = (IF pinned THEN task ELSE NoTask)
       /\ lastOp'.op \in {"tick", "timeup", "toggleMode"} =>
             task' = task]_vars

\* a reset left the pinned task active
C25_Witness ==
    /\ lastOp.op = "reset"
    /\ pinned
    /\ task # NoTask

\* the log level of the settings st lets sessions of the context's mode
\* through
Admits(st, ctx) == st.logLevel = "ALL" \/ st.logLevel = ctx.mode

\* the context is one the logger has a text for: all but unfinished breaks
HasText(ctx) == ctx.mode = "WORK" \/ ctx.count = ctx.elapsed

\* C26: when the log level is neither ALL nor the mode of the session, the
\* log call resolves no target and writes nothing, whatever the focused
\* document setting, the task's document and the destination kind are
C26_LevelFiltersMode ==
    [][(LoggerCalled' /\ ~Admits(lastOp'.logs[1].st, lastOp'.logs[1].ctx))
       => /\ lastOp'.written = << >>
          /\ doc' = doc]_vars

\* a finished BREAK was not logged under level WORK although the document
\* of the task and a log file were both there to take it
C26_Witness ==
    /\ LoggerCalled
    /\ lastOp.logs[1].st.logLevel = "WORK"
    /\ lastOp.logs[1].ctx.mode = "BREAK"
    /\ lastOp.logs[1].ctx.count = lastOp.logs[1].ctx.elapsed
    /\ lastOp.logs[1].st.logFocused
    /\ lastOp.logs[1].st.taskFile
    /\ lastOp.logs[1].st.logFile = "FILE"
    /\ lastOp.written = << >>

\* C27: when the level admits the mode, logging to the focused document is
\* on and the task path of the context names a markdown document, that
\* document is the target whatever the destination kind is, NONE included;
\* otherwise the destination kind decides, and NONE writes nothing
C27_FocusedBeforeKind ==
    [][(LoggerCalled' /\ Admits(lastOp'.logs[1].st, lastOp'.logs[1].ctx))
       => LET st  == lastOp'.logs[1].st
              ctx == lastOp'.logs[1].ctx
          IN IF st.logFocused /\ st.taskFile
             THEN HasText(ctx) => /\ Len(lastOp'.written) = 1
                                  /\ lastOp'.written[1].target = "FOCUSED"
             ELSE IF st.logFile = "NONE"
             THEN lastOp'.written = << >> /\ doc' = doc
             ELSE HasText(ctx) => /\ Len(lastOp'.written) = 1
                                  /\ lastOp'.written[1].target = "FILE"]_vars

\* the entry went to the document of the task although the destination
\* kind is NONE
C27_Witness ==
    /\ LoggerCalled
    /\ lastOp.logs[1].st.logFile = "NONE"
    /\ lastOp.logs[1].st.logFocused
    /\ Len(lastOp.written) = 1
    /\ lastOp.written[1].target = "FOCUSED"
    /\ Len(doc) = MaxDocLen + 2

\* the block link of the context's task is on no line of the document
\* (there is none to look for when there is no task)
Unanchored(lines, ctx) ==
    \/ ctx.task = NoTask
    \/ \A i \in 1..Len(lines) : ~includes(lines[i], blockLinkOf(ctx.task))

\* C28: a session is not dropped for lack of an anchor.  When there is no
\* active task, or the block link of the task is on no line of the target
\* document, a log call that has a target and a text appends the entry as
\* a new last line and leaves every other line as it was
C28_AppendsWithoutAnchor ==
    [][(/\ LoggerCalled'
        /\ resolveLogFile(lastOp'.logs[1].ctx, lastOp'.logs[1].st) # ""
        /\ HasText(lastOp'.logs[1].ctx)
        /\ Unanchored(doc, lastOp'.logs[1].ctx))
       => /\ Len(doc') = Len(doc) + 1
          /\ SubSeq(doc', 1, Len(doc)) = doc
          /\ doc'[Len(doc')].indent = 0
          /\ doc'[Len(doc')].text
                = toText(createLog(lastOp'.logs[1].ctx, now),
                         lastOp'.logs[1].st)
          /\ Len(lastOp'.written) = 1]_vars

\* the session of a task was appended to a document that has no line with
\* the block link of the task
C28_Witness ==
    /\ LoggerCalled
    /\ Len(lastOp.written) = 1
    /\ lastOp.logs[1].ctx.task # NoTask
    /\ Unanchored(doc, lastOp.logs[1].ctx)
    /\ lastOp.written[1].at = Len(doc)
    /\ IsEntry(doc[Len(doc)])

\* the records of the sequence lst whose path is p, or is not p, in order
Slice(lst, p, same) ==
    SelectSeq(lst, LAMBDA t : (t.path = p) = same)

\* C29: a per-document update replaces exactly the records of the updated
\* document by the records parsed from its new content; the records of
\* every other document are carried over unchanged, in their order
C29_UpdateReplacesOwnSlice ==
    [][lastOp'.op = "update" =>
          LET p == lastOp'.logs[1].path
          IN /\ Slice(list', p, FALSE) = Slice(list, p, FALSE)
             /\ Slice(list', p, TRUE)
                   = resolveTasks(p, vault'[p], Metadata(vault'[p]))
             /\ Len(list') = Len(Slice(list', p, FALSE))
                             + Len(Slice(list', p, TRUE))]_vars

\* the task of a.md was edited: the list holds its new record, and the
\* record of b.md as it was read before that edit
C29_Witness ==
    /\ Updated
    /\ lastOp.logs[1].path = "a.md"
    /\ Len(list) = 2
    /\ list[1].path = "b.md" /\ list[1].status = " "
    /\ list[2].path = "a.md" /\ list[2].status = "x"
    /\ list[2].actual = 3

\* some line of the file is a sample entry the correction condition holds
\* for
SomeMismatch(lines) ==
    \E i \in 1..Len(lines), x \in SampleEntries :
        lines[i] = EntryText(x) /\ Mismatch(x)

\* C30: the corrector writes the log file back exactly when it corrected
\* at least one line; when no line meets the condition, or no log file is
\* configured, or the file is not in the vault, nothing is written and the
\* file stays as it was
C30_WritesOnlyCorrections ==
    [][lastOp'.op \in {"correct", "noLogFile", "notFound"} =>
          LET corrected == lastOp'.op = "correct" /\ SomeMismatch(doc)
          IN /\ (lastOp'.written # << >>) = corrected
             /\ ~corrected => doc' = doc]_vars

\* the command ran while the log file was missing from the vault: nothing
\* was written, and the entry in need of correction is as it was
C30_Witness ==
    /\ lastOp.op = "notFound"
    /\ lastOp.written = << >>
    /\ SomeMismatch(doc)

\* a log call is in flight: dispatched, and its write not yet made
LogInFlight == pending # << >>

\* C31: the timer never waits for logging.  While a log call is in flight
\* a tick, start, pause, reset or toggleMode takes effect at once and
\* leaves the call in flight; and the handler that dispatches a log call
\* (timeup, reset) leaves the timer in the state after the transition
\* while the call it dispatched is still in flight
C31_TimerNeverWaitsForLog ==
    [][/\ LogInFlight =>
             /\ lastOp'.op = "start" =>
                   state'.running /\ state'.inSession /\ pending' = pending
             /\ lastOp'.op = "pause" =>
                   ~state'.running /\ pending' = pending
             /\ lastOp'.op = "toggleMode" =>
                   /\ Idle(state') /\ state'.mode # state.mode
                   /\ pending' = pending
             /\ lastOp'.op = "reset" =>
                   /\ Idle(state') /\ state'.elapsed = 0
                   /\ pending' = pending
             /\ (lastOp'.op = "tick" /\ state.running) =>
                   state' # state /\ pending' = pending
       /\ (lastOp'.op \in {"tick", "timeup", "reset"}
           /\ lastOp'.logs # << >> /\ pending' = lastOp'.logs) =>
             /\ state'.elapsed = 0
             /\ lastOp'.op = "reset" => Idle(state')
             /\ lastOp'.op # "reset" =>
                   /\ state'.mode # lastOp'.logs[1].ctx.mode
                   /\ state'.count = ConfiguredCount(state', state'.mode)
                   /\ state'.running = state.autostart]_vars

\* the next session was started and has run for a while, and the log call
\* of the WORK session that timed out before it is still in flight
C31_Witness ==
    /\ LogInFlight
    /\ pending[1].src = "timeup"
    /\ pending[1].ctx.mode = "WORK"
    /\ state.mode = "BREAK"
    /\ state.running
    /\ state.elapsed > 0
    /\ ~state.autostart

\* C32: the duration of a written entry is the whole minutes of the elapsed
\* time of its context, rounded down: a session ended by hand within its
\* first minute is logged with 0 minutes, and an entry written for a reset
\* has at least 1 minute
C32_DurationIsFloorOfElapsed ==
    (lastOp.op = "log" /\ lastOp.written # << >>) =>
        LET ctx == lastOp.logs[1].ctx
            d   == lastOp.written[1].duration
        IN /\ d * 60000 <= ctx.elapsed
           /\ ctx.elapsed < (d + 1) * 60000
           /\ lastOp.logs[1].src = "reset" => d >= 1

\* a WORK session ended by hand after 30 seconds was logged with 0 minutes
C32_Witness ==
    /\ lastOp.op = "log"
    /\ Len(lastOp.written) = 1
    /\ lastOp.logs[1].src = "timeup"
    /\ lastOp.logs[1].ctx.elapsed = 30000
    /\ lastOp.written[1].duration = 0
    /\ lastOp.written[1].mode = "WORK"

\* C33: whenever no session is in progress the elapsed time is 0 and the
\* count is the configured length of the current mode, workLen in WORK and
\* breakLen in BREAK, whatever operations and settings changes came before
C33_IdleCountIsConfigured ==
    ~state.inSession =>
        /\ state.elapsed = 0
        /\ state.count = ConfiguredCount(state, state.mode)
        /\ lastOp.op = "init" => state.mode = "WORK"

\* the timer is Idle in BREAK mode after a change of the settings, with
\* the count of the break length now configured
C33_Witness ==
    /\ lastOp.op = "setupTimer"
    /\ Idle(state)
    /\ state.mode = "BREAK"
    /\ state.breakLen = MaxBreakLen
    /\ state.workLen # state.breakLen
    /\ state.count = MaxBreakLen * 60000

\* C34: when log calls on one document are in flight at once, no entry is
\* lost to the read-modify-write of another: every write leaves each line
\* the document had, the entries written meanwhile included, so that the
\* entries of all the calls are there once they have completed
C34_NoEntryLost ==
    [][lastOp'.op = "write" =>
          /\ Len(doc') = Len(doc) + 1
          /\ \A i \in 1..Len(doc) :
                Occurs(doc', doc[i]) >= Occurs(doc, doc[i])]_vars

\* the line of the document the line k is under: the nearest line above it
\* with less indentation, 0 when there is none
ParentLine(lines, k) ==
    LET above == {i \in 1..(k - 1) : lines[i].indent < lines[k].indent}
    IN IF above = {} THEN 0 ELSE CHOOSE i \in above : \A j \in above : j <= i

\* the block link of the line is exactly bl
AnchoredAt(line, bl) ==
    \E j \in 1..Len(line.text) : line.text[j] = <<"anchor", bl>>

\* C35: when the document has the line of the active task, the entry is
\* inserted under the line whose block link equals the block link of the
\* task, never under the line of another task, not even one whose block
\* link begins with the block link of the task
C35_EntryUnderOwnTaskLine ==
    (/\ lastOp.op = "log"
     /\ lastOp.written # << >>
     /\ lastOp.logs[1].ctx.task # NoTask
     /\ \E i \in 1..Len(doc) :
            AnchoredAt(doc[i], blockLinkOf(lastOp.logs[1].ctx.task)))
        => LET k == lastOp.written[1].at
               p == ParentLine(doc, k)
           IN /\ p # 0
              /\ AnchoredAt(doc[p], blockLinkOf(lastOp.logs[1].ctx.task))

\* the line b is the line a but for the time after "(end::"
SameButEnd(a, b) ==
    /\ b.indent = a.indent
    /\ Len(b.text) = Len(a.text)
    /\ \A j \in 1..Len(a.text) :
          b.text[j] # a.text[j] => (j > 1 /\ a.text[j - 1] = Lit("(end::"))

\* C36: a line the corrector rewrites differs from the original only in
\* its end time: its leading indentation, its task id, duration and begin
\* annotations and the text around the matched entry are as they were
C36_RewriteKeepsAllButEnd ==
    [][lastOp'.op = "correct" =>
          /\ Len(doc') = Len(doc)
          /\ \A i \in 1..Len(doc) : SameButEnd(doc[i], doc'[i])]_vars

\* C37: an update notification for a document never changes the source
\* path of the active-task pointer, and resyncs the pointer only from a
\* record of the document it was selected from, even when another document
\* has a task with the same block link
C37_PointerKeepsItsDocument ==
    [][(lastOp'.op = "update" /\ trackerTask # << >>) =>
          /\ trackerTask' # << >>
          /\ trackerTask'[1].path = trackerTask[1].path
          /\ trackerTask' # trackerTask =>
                lastOp'.logs[1].path = trackerTask[1].path]_vars

\* the records the list lst holds for the file p are those of the content
\* last notified for p
Fresh(lst, p) ==
    Slice(lst, p, TRUE) = resolveTasks(p, vault[p], Metadata(vault[p]))

\* C38: a full reload that read a document before a change of it never
\* overwrites the newer records with the stale ones: when the reload
\* completes, the records of a document that were those of its last
\* notified content still are
C38_ReloadKeepsNewerRecords ==
    [][lastOp'.op = "loaded" =>
          \A p \in Paths :
              (Fresh(list, p) /\ Slice(load.allTasks, p, TRUE) # << >>)
                  => Fresh(list', p)]_vars

\* C39: when the user deselects the active task in the timer panel during
\* a session of a minute or more, the entry logged for the partial session
\* carries the task that was active during the session, not the
\* placeholder
C39_DeselectLogsActiveTask ==
    [][(lastOp'.op = "removeTask" /\ lastOp'.logs # << >>) =>
          lastOp'.logs[1].ctx.task = task]_vars

\* C40: every entry written describes a session that was in progress, its
\* context captured with inSession set and a start time; and timeup
\* invoked while the timer is Idle dispatches no log call and leaves the
\* mode as it is
C40_LoggedSessionsWereInProgress ==
    [][/\ (lastOp'.op = "log" /\ lastOp'.written # << >>) =>
             /\ lastOp'.logs[1].ctx.inSession
             /\ lastOp'.logs[1].ctx.startTime # Null
       /\ (lastOp'.op = "timeup" /\ Idle(state)) =>
             /\ lastOp'.logs = << >>
             /\ state'.mode = state.mode]_vars

====
